---- MODULE Spec2Model ----
(***************************************************************************)
(* A model of refresh_plex.py: the two-pass reconciliation of a            *)
(* destination tree against a source tree (Plex.sync), the resolution      *)
(* cache (refresh_cache / find_items) and the orchestration of the remote  *)
(* actions (update_server, analyze_libraries, refresh_libraries, run).     *)
(***************************************************************************)
EXTENDS Integers, Sequences, FiniteSets, TLC

(***************************************************************************)
(* Bounds of the model.                                                    *)
(***************************************************************************)
\* inodes 1..NumInodes exist on the volume
NumInodes == 3
\* how many times sync() is run in a row on the same pair of trees
MaxRuns == 2
\* the remote items have the rating keys 1..NumKeys
NumKeys == 2
\* an item has at most MaxParts file parts
MaxParts == 2
\* a changed-paths list has at most MaxChanged paths
MaxChanged == 2
\* how many times the remote library changes after the model starts
MaxRemoteChanges == 1
\* how many filesystem calls the system refuses in a run
MaxDenied == 1

(***************************************************************************)
(* Names, paths and trees.  A name is a sequence of characters, a path a   *)
(* sequence of names (PurePath parts).  A tree is the content of one       *)
(* library root: a function from the relative paths of the universe to     *)
(* 0 (no such entry), DIR (a directory) or the inode number of a file.     *)
(***************************************************************************)
NameA == <<"a">>
NameB == <<"b">>
NameF == <<"f">>

DirPaths == {<<NameA>>, <<NameB>>, <<NameA, NameA>>}
FilePaths == {d \o <<NameF>> : d \in DirPaths}
Paths == DirPaths \cup FilePaths
DirNames == {p[Len(p)] : p \in DirPaths}
FileNames == {p[Len(p)] : p \in FilePaths}

DIR == -1
Inodes == 1..NumInodes

\* os.path.getsize of a file: hardlinks of one inode share its size; inodes of
\* the same parity have equal sizes (1 and 3 are different files of one size)
InodeSize(i) == IF i % 2 = 1 THEN 10 ELSE 20

Parent(p) == SubSeq(p, 1, Len(p) - 1)

IsPrefix(p, q) == Len(p) <= Len(q) /\ SubSeq(q, 1, Len(p)) = p

\* os.path.exists of root joined with the relative path p
Exists(tree, p) == p = <<>> \/ (p \in Paths /\ tree[p] # 0)

IsDir(tree, p) == p = <<>> \/ (p \in Paths /\ tree[p] = DIR)

\* the trees a library root can hold: every entry lies in an existing directory
Trees ==
  {t \in [Paths -> {0, DIR} \cup Inodes] :
     /\ \A p \in DirPaths : t[p] \in {0, DIR}
     /\ \A p \in FilePaths : t[p] # DIR
     /\ \A p \in Paths : t[p] # 0 => IsDir(t, Parent(p))}

Perms(S) == {s \in [1..Cardinality(S) -> S] : \A i, j \in 1..Cardinality(S) : s[i] = s[j] => i = j}

\* the order in which scandir lists the names of a directory is unspecified:
\* one permutation of the directory names and one of the file names per run
\* (os.walk keeps the two in separate lists)
Orders == {d \o f : d \in Perms(DirNames), f \in Perms(FileNames)}

Kinds == {"movie", "show"}

(***************************************************************************)
(* SyncMetric and LibMetrics.                                              *)
(***************************************************************************)
SyncMetric == [dirs |-> <<>>, files |-> <<>>]

has_values(sm) == sm.dirs # <<>> \/ sm.files # <<>>

LibMetrics == [added |-> SyncMetric, removed |-> SyncMetric, changed |-> SyncMetric]

(***************************************************************************)
(* The filesystem operations the reconciler uses, on the destination tree. *)
(* deny is the set of the calls the system refuses (permission denied,     *)
(* disk full), as [op, path]: "unlink" for the removal of the entry at the *)
(* relative path, "create" for the making of an entry there.               *)
(***************************************************************************)
Denials == [op : {"unlink", "create"}, path : Paths]

Denied(deny, op, p) == [op |-> op, path |-> p] \in deny

\* the entry q cannot go: it is, or it holds, an entry whose removal is refused
Stuck(tree, deny, q) ==
  \E d \in deny : d.op = "unlink" /\ tree[d.path] # 0 /\ IsPrefix(q, d.path)

\* shutil.rmtree(dest_path, ignore_errors=True): what can be removed is
\* removed, and no error is raised for what cannot
rmtree(tree, p, deny) ==
  [q \in Paths |-> IF IsPrefix(p, q) /\ ~Stuck(tree, deny, q) THEN 0 ELSE tree[q]]

\* os.remove(dest_path)
remove(tree, p) == [tree EXCEPT ![p] = 0]

\* os.mkdir(dest_path)
mkdir(tree, p) == [tree EXCEPT ![p] = DIR]

\* os.link(src_path, dest_path): the new name shares the source's inode
link(tree, p, inode) == [tree EXCEPT ![p] = inode]

\* one of the lists os.walk yields for the directory root: the names of its
\* sub-directories (is_dirs) or of its files, in scandir order
Listing(tree, root, is_dirs, order) ==
  SelectSeq(order, LAMBDA n :
     /\ root \o <<n>> \in Paths
     /\ IF is_dirs THEN tree[root \o <<n>>] = DIR ELSE tree[root \o <<n>>] > 0)

\* list.remove(x): the list without its first occurrence of x
ListRemove(s, x) ==
  LET i == CHOOSE k \in 1..Len(s) : s[k] = x /\ \A j \in 1..(k - 1) : s[j] # x
  IN SubSeq(s, 1, i - 1) \o SubSeq(s, i + 1, Len(s))

Logged(c, w, op, path) == [w EXCEPT !.log = Append(@, [op |-> op, lib |-> c.lib, path |-> path])]

\* a filesystem call on path fails with OSError, which nothing catches
Raised(c, w, path) == [Logged(c, w, "fails", path) EXCEPT !.err = TRUE]

(***************************************************************************)
(* The three checks.  c = [lib, src, dry_run, order, deny] is what a walk   *)
(* reads and never writes, lib being the place of the mapping in           *)
(* plex_libs; w = [dest, m, log, err] is what it changes: the destination  *)
(* tree, the LibMetrics of the library's kind, the log, which holds the    *)
(* debug line of every check, every filesystem call that succeeded         *)
(* ("rmtree" for every rmtree call), a "fails" entry for every call that   *)
(* failed and every directory os.walk(lib.dest) lists, and err: an         *)
(* exception is on its way out of sync.                                    *)
(* Each check returns [w, ret]: ret is whether a path was returned.        *)
(***************************************************************************)
\* a faulty variant of check_removed_media that removes under dry_run too
check_removed_media_nodry(c, w, root, name, is_dirs) ==
  LET rel == root \o <<name>>
      w1 == Logged(c, w, "checking_removed", rel)
  IN IF ~Exists(c.src, rel)
     THEN IF is_dirs
          THEN [w |-> Logged(c, [w1 EXCEPT !.dest = rmtree(@, rel, c.deny)], "rmtree", rel),
                ret |-> TRUE]
          ELSE [w |-> Logged(c, [w1 EXCEPT !.dest = remove(@, rel)], "remove", rel),
                ret |-> TRUE]
     ELSE [w |-> w1, ret |-> FALSE]

check_removed_media(c, w, root, name, is_dirs) ==
  LET rel == root \o <<name>>
      w1 == Logged(c, w, "checking_removed", rel)
  IN IF ~Exists(c.src, rel)
     THEN IF is_dirs
          THEN [w |-> IF ~c.dry_run
                      THEN LET w2 == Logged(c, [w1 EXCEPT !.dest = rmtree(@, rel, c.deny)],
                                            "rmtree", rel)
                           IN IF w2.dest[rel] # 0 THEN Logged(c, w2, "fails", rel) ELSE w2
                      ELSE w1,
                ret |-> TRUE]
          ELSE IF ~c.dry_run /\ Denied(c.deny, "unlink", rel)
          THEN [w |-> Raised(c, w1, rel), ret |-> FALSE]
          ELSE [w |-> IF ~c.dry_run
                      THEN Logged(c, [w1 EXCEPT !.dest = remove(@, rel)], "remove", rel)
                      ELSE w1,
                ret |-> TRUE]
     ELSE [w |-> w1, ret |-> FALSE]

\* a faulty variant of check_added_media that returns no path under dry_run
check_added_media_silent(c, w, root, name, is_dirs) ==
  LET rel == root \o <<name>>
      w1 == Logged(c, w, "checking_added", rel)
  IN IF ~Exists(w.dest, rel) /\ ~c.dry_run
     THEN IF is_dirs
          THEN [w |-> Logged(c, [w1 EXCEPT !.dest = mkdir(@, rel)], "mkdir", rel), ret |-> TRUE]
          ELSE [w |-> Logged(c, [w1 EXCEPT !.dest = link(@, rel, c.src[rel])], "link", rel),
                ret |-> TRUE]
     ELSE [w |-> w1, ret |-> FALSE]

check_added_media(c, w, root, name, is_dirs) ==
  LET rel == root \o <<name>>
      w1 == Logged(c, w, "checking_added", rel)
  IN IF ~Exists(w.dest, rel)
     THEN IF ~c.dry_run /\ Denied(c.deny, "create", rel)
          THEN [w |-> Raised(c, w1, rel), ret |-> FALSE]
          ELSE IF is_dirs
          THEN [w |-> IF ~c.dry_run
                      THEN Logged(c, [w1 EXCEPT !.dest = mkdir(@, rel)], "mkdir", rel)
                      ELSE w1,
                ret |-> TRUE]
          ELSE [w |-> IF ~c.dry_run
                      THEN Logged(c, [w1 EXCEPT !.dest = link(@, rel, c.src[rel])], "link", rel)
                      ELSE w1,
                ret |-> TRUE]
     ELSE [w |-> w1, ret |-> FALSE]

\* a faulty variant of check_changed_media that removes the drifted file and does not
\* link it again
check_changed_media_nolink(c, w, root, name, is_dirs) ==
  IF is_dirs THEN [w |-> w, ret |-> FALSE]
  ELSE
  LET rel == root \o <<name>>
      w1 == Logged(c, w, "checking_changed", rel)
  IN IF InodeSize(c.src[rel]) # InodeSize(w.dest[rel])
     THEN [w |-> IF ~c.dry_run
                 THEN Logged(c, [w1 EXCEPT !.dest = remove(@, rel)], "remove", rel)
                 ELSE w1,
           ret |-> TRUE]
     ELSE [w |-> w1, ret |-> FALSE]

check_changed_media(c, w, root, name, is_dirs) ==
  IF is_dirs THEN [w |-> w, ret |-> FALSE]
  ELSE
  LET rel == root \o <<name>>
      w1 == Logged(c, w, "checking_changed", rel)
  IN IF InodeSize(c.src[rel]) # InodeSize(w.dest[rel])
     THEN IF ~c.dry_run /\ Denied(c.deny, "unlink", rel)
          THEN [w |-> Raised(c, w1, rel), ret |-> FALSE]
          ELSE IF ~c.dry_run /\ Denied(c.deny, "create", rel)
          THEN [w |-> Raised(c, Logged(c, [w1 EXCEPT !.dest = remove(@, rel)], "remove", rel), rel),
                ret |-> FALSE]
          ELSE
          [w |-> IF ~c.dry_run
                 THEN Logged(c, Logged(c, [w1 EXCEPT !.dest = link(remove(@, rel), rel, c.src[rel])],
                                    "remove", rel), "link", rel)
                 ELSE w1,
           ret |-> TRUE]
     ELSE [w |-> w1, ret |-> FALSE]

(***************************************************************************)
(* Pass 1 of sync: os.walk(lib.dest), top-down.                            *)
(***************************************************************************)
\* "for dir in dirs": the list iterator holds an index i into the list, and
\* dirs.remove(dir) shortens that same list while the loop runs
RECURSIVE RemovedDirsLoop(_, _, _, _, _)
RemovedDirsLoop(c, w, root, dirs, i) ==
  IF i > Len(dirs) THEN [w |-> w, dirs |-> dirs]
  ELSE LET dir == dirs[i]
           r == check_removed_media(c, w, root, dir, TRUE)
       IN IF r.ret
          THEN RemovedDirsLoop(c,
                 [r.w EXCEPT !.m.removed.dirs = Append(@, root \o <<dir>>)],
                 root, ListRemove(dirs, dir), i + 1)
          ELSE RemovedDirsLoop(c, r.w, root, dirs, i + 1)

\* "for file in files" of pass 1
RECURSIVE RemovedFilesLoop(_, _, _, _, _)
RemovedFilesLoop(c, w, root, files, i) ==
  IF i > Len(files) \/ w.err THEN w
  ELSE LET file == files[i]
           r == check_removed_media(c, w, root, file, FALSE)
       IN IF r.w.err THEN r.w
          ELSE IF r.ret
          THEN RemovedFilesLoop(c,
                 [r.w EXCEPT !.m.removed.files = Append(@, root \o <<file>>)],
                 root, files, i + 1)
          ELSE LET r2 == check_changed_media(c, r.w, root, file, FALSE)
               IN IF r2.ret
                  THEN RemovedFilesLoop(c,
                         [r2.w EXCEPT !.m.changed.files = Append(@, root \o <<file>>)],
                         root, files, i + 1)
                  ELSE RemovedFilesLoop(c, r2.w, root, files, i + 1)

\* os.walk: list root, run the loop body, then walk the directories left in dirs
RECURSIVE WalkDest(_, _, _)
RECURSIVE WalkDestDirs(_, _, _, _, _)
WalkDest(c, w, root) ==
  IF w.err THEN w ELSE
  LET w0 == Logged(c, w, "walk_dest", root)
      dirs == Listing(w.dest, root, TRUE, c.order)
      files == Listing(w.dest, root, FALSE, c.order)
      d == RemovedDirsLoop(c, w0, root, dirs, 1)
      w2 == RemovedFilesLoop(c, d.w, root, files, 1)
  IN WalkDestDirs(c, w2, root, d.dirs, 1)

WalkDestDirs(c, w, root, dirs, i) ==
  IF i > Len(dirs) THEN w
  ELSE WalkDestDirs(c, WalkDest(c, w, root \o <<dirs[i]>>), root, dirs, i + 1)

(***************************************************************************)
(* Pass 2 of sync: os.walk(lib.src), top-down.                             *)
(***************************************************************************)
RECURSIVE AddedLoop(_, _, _, _, _, _)
AddedLoop(c, w, root, names, is_dirs, i) ==
  IF i > Len(names) \/ w.err THEN w
  ELSE LET r == check_added_media(c, w, root, names[i], is_dirs)
           rel == root \o <<names[i]>>
       IN IF r.ret
          THEN AddedLoop(c,
                 IF is_dirs THEN [r.w EXCEPT !.m.added.dirs = Append(@, rel)]
                            ELSE [r.w EXCEPT !.m.added.files = Append(@, rel)],
                 root, names, is_dirs, i + 1)
          ELSE AddedLoop(c, r.w, root, names, is_dirs, i + 1)

RECURSIVE WalkSrc(_, _, _)
RECURSIVE WalkSrcDirs(_, _, _, _, _)
WalkSrc(c, w, root) ==
  IF w.err THEN w ELSE
  LET dirs == Listing(c.src, root, TRUE, c.order)
      files == Listing(c.src, root, FALSE, c.order)
      w1 == AddedLoop(c, w, root, dirs, TRUE, 1)
      w2 == AddedLoop(c, w1, root, files, FALSE, 1)
  IN WalkSrcDirs(c, w2, root, dirs, 1)

WalkSrcDirs(c, w, root, dirs, i) ==
  IF i > Len(dirs) THEN w
  ELSE WalkSrcDirs(c, WalkSrc(c, w, root \o <<dirs[i]>>), root, dirs, i + 1)

(***************************************************************************)
(* sync: for every library mapping, pass 1 then pass 2, the metrics of     *)
(* mappings of one kind sharing one LibMetrics.                            *)
(* s = [libs, metrics, log, err]; when err, sync has raised and metrics    *)
(* is its local dict as the exception left it.                             *)
(* The metrics are a function from the kinds met to their LibMetrics; the  *)
(* function with the empty domain stands for the None that sync returns    *)
(* when there is no mapping.                                               *)
(***************************************************************************)
NoMetrics == [k \in {} |-> LibMetrics]

SetDefault(metrics, kind) ==
  IF kind \in DOMAIN metrics THEN metrics
  ELSE [k \in DOMAIN metrics \cup {kind} |-> IF k = kind THEN LibMetrics ELSE metrics[k]]

RECURSIVE SyncLibs(_, _, _, _, _)
SyncLibs(s, dry_run, order, denied, i) ==
  IF i > Len(s.libs) \/ s.err THEN s
  ELSE LET lib == s.libs[i]
           c == [lib |-> i, src |-> lib.src, dry_run |-> dry_run, order |-> order,
                 deny |-> denied]
           ms == SetDefault(s.metrics, lib.type)
           w0 == [dest |-> lib.dest, m |-> ms[lib.type], log |-> s.log, err |-> FALSE]
           w1 == WalkDest(c, w0, <<>>)
           w2 == WalkSrc(c, w1, <<>>)
       IN SyncLibs([libs |-> [s.libs EXCEPT ![i].dest = w2.dest],
                    metrics |-> [ms EXCEPT ![lib.type] = w2.m],
                    log |-> w2.log, err |-> w2.err],
                   dry_run, order, denied, i + 1)

sync(libs, dry_run, order, denied) ==
  SyncLibs([libs |-> libs, metrics |-> NoMetrics, log |-> <<>>, err |-> FALSE],
           dry_run, order, denied, 1)

(***************************************************************************)
(* Path strings.  A string is a sequence of characters.                    *)
(***************************************************************************)
RECURSIVE Str(_)
\* str(PurePath) of a relative path: its names joined by "/"
Str(p) ==
  IF p = <<>> THEN <<>>
  ELSE IF Len(p) = 1 THEN p[1]
  ELSE p[1] \o <<"/">> \o Str(Tail(p))

RECURSIVE Collapse(_)
\* a "/" that follows a "/" is dropped, and so is a trailing "/"
Collapse(s) ==
  IF Len(s) <= 1 THEN s
  ELSE IF s[1] = "/" /\ s[2] = "/" THEN Collapse(Tail(s))
  ELSE IF Len(s) = 2 /\ s[2] = "/" THEN <<s[1]>>
  ELSE <<s[1]>> \o Collapse(Tail(s))

\* str(PurePath(file)) of an absolute path string: repeated separators are
\* collapsed, except that exactly two leading ones are kept
PurePathStr(s) ==
  IF Len(s) >= 3 /\ s[1] = "/" /\ s[2] = "/" /\ s[3] # "/"
  THEN <<"/">> \o Collapse(Tail(s))
  ELSE Collapse(s)

\* SQLite's LIKE compares ASCII letters without regard to case
Fold(ch) ==
  CASE ch = "A" -> "a" [] ch = "B" -> "b" [] ch = "F" -> "f" [] ch = "M" -> "m"
    [] OTHER -> ch

RECURSIVE Like(_, _)
\* s LIKE pat in SQLite: "%" stands for any run of characters, "_" for any one
\* character, any other character for itself
Like(pat, s) ==
  IF pat = <<>> THEN s = <<>>
  ELSE IF pat[1] = "%" THEN Like(Tail(pat), s) \/ (s # <<>> /\ Like(pat, Tail(s)))
  ELSE /\ s # <<>>
       /\ (pat[1] = "_" \/ Fold(pat[1]) = Fold(s[1]))
       /\ Like(Tail(pat), Tail(s))

(***************************************************************************)
(* The remote service.  remote[key] is the item with that rating key:      *)
(* NoItem, or [type, files], type the type of its library section and      *)
(* files the files of its media parts.  An item of an artist section has   *)
(* no media attribute.  Sections and items are listed in a fixed order.    *)
(***************************************************************************)
Keys == 1..NumKeys

\* the files the remote service may report; the second is reported with a
\* doubled separator
RemoteFiles == << <<"/","m","/","a","/","f">>,
                 <<"/","m","/","/","b","/","f">>,
                 <<"/","m","/","b","a","/","f">> >>

FileSet == {RemoteFiles[i] : i \in DOMAIN RemoteFiles}

SectionTypes == <<"movie", "show", "photo", "artist">>

NoItem == [type |-> "none", files |-> {}]

Items ==
  {NoItem, [type |-> "artist", files |-> {}]} \cup
  {[type |-> t, files |-> fs] :
     t \in {"movie", "show", "photo"},
     fs \in {x \in SUBSET FileSet : Cardinality(x) \in 1..MaxParts}}

Remotes == [Keys -> Items]

\* the file parts of an item, in the order the service lists them
Parts(item) == SelectSeq(RemoteFiles, LAMBDA f : f \in item.files)

\* library.sections() / section.all(): the keys of the items of a section
SectionItems(remote, type) ==
  SelectSeq([k \in Keys |-> k], LAMBDA k : remote[k].type = type)

(***************************************************************************)
(* refresh_cache: the table is dropped and created again (open_db with     *)
(* reset), then one row per file part of every item of every movie or show *)
(* section is inserted.  The cache is the sequence of the rows             *)
(* [lib, key, path] of the table media.                                    *)
(***************************************************************************)
\* a faulty variant of open_db that never drops the table
open_db_noreset(cache, reset) == cache

\* open_db(CACHE_DB, reset): with reset the table media is dropped and created
\* again, and that is committed, before the body of the with statement runs
open_db(cache, reset) == IF reset THEN <<>> ELSE cache

RECURSIVE ItemRows(_, _, _, _)
ItemRows(lib_type, key, parts, i) ==
  IF i > Len(parts) THEN <<>>
  ELSE <<[lib |-> lib_type, key |-> key, path |-> PurePathStr(parts[i])]>>
       \o ItemRows(lib_type, key, parts, i + 1)

RECURSIVE SectionRows(_, _, _, _)
SectionRows(remote, lib_type, keys, i) ==
  IF i > Len(keys) THEN <<>>
  ELSE ItemRows(lib_type, keys[i], Parts(remote[keys[i]]), 1)
       \o SectionRows(remote, lib_type, keys, i + 1)

RECURSIVE refresh_cache_movies(_, _)
\* a faulty variant of refresh_cache that keeps the movie sections only
refresh_cache_movies(remote, i) ==
  IF i > Len(SectionTypes) THEN <<>>
  ELSE LET lib_type == SectionTypes[i]
       IN (IF lib_type \notin {"movie"} THEN <<>>
           ELSE SectionRows(remote, lib_type, SectionItems(remote, lib_type), 1))
          \o refresh_cache_movies(remote, i + 1)

RECURSIVE refresh_cache(_, _)
\* the rows refresh_cache inserts for the sections from the i-th on
refresh_cache(remote, i) ==
  IF i > Len(SectionTypes) THEN <<>>
  ELSE LET lib_type == SectionTypes[i]
       IN (IF lib_type \notin {"movie", "show"} THEN <<>>
           ELSE SectionRows(remote, lib_type, SectionItems(remote, lib_type), 1))
          \o refresh_cache(remote, i + 1)

(***************************************************************************)
(* find_items.                                                             *)
(***************************************************************************)
\* is_plex_media_valid(item, expected_media_path)
is_plex_media_valid(item, expected_media_path) ==
  \E f \in item.files : PurePathStr(f) = PurePathStr(expected_media_path)

\* SELECT * FROM media WHERE lib = ? AND path LIKE ?, with (lib_type, "%" + relative_path)
Select(cache, lib_type, relative_path) ==
  SelectSeq(cache, LAMBDA r : r.lib = lib_type /\ Like(<<"%">> \o Str(relative_path), r.path))

\* f = [none, analyze_items, missing_items, fetched]: none is whether
\* find_items has returned None; analyze_items are the keys of the dict in
\* insertion order; missing_items is the dict from library kind to paths;
\* fetched are the keys fetchItem was called with, in order
FindStart == [none |-> FALSE, analyze_items |-> <<>>,
              missing_items |-> [k \in {} |-> <<>>], fetched |-> <<>>]

InSeq(x, s) == \E i \in DOMAIN s : s[i] = x

RECURSIVE RowsLoop_nodedupe(_, _, _, _, _, _)
\* a faulty variant of RowsLoop without the test "key in analyze_items"
RowsLoop_nodedupe(remote, verify, rows, i, f, is_valid) ==
  IF i > Len(rows) \/ f.none THEN [f |-> f, is_valid |-> is_valid]
  ELSE LET key == rows[i].key
           item == remote[key]
           f1 == [f EXCEPT !.fetched = Append(@, key)]
       IN IF item = NoItem
          THEN RowsLoop_nodedupe(remote, verify, rows, i + 1, [f1 EXCEPT !.none = verify], is_valid)
          ELSE IF verify /\ item.type = "artist"
          THEN RowsLoop_nodedupe(remote, verify, rows, i + 1, [f1 EXCEPT !.none = TRUE], is_valid)
          ELSE IF verify /\ ~is_plex_media_valid(item, rows[i].path)
          THEN RowsLoop_nodedupe(remote, verify, rows, i + 1, [f1 EXCEPT !.none = TRUE], is_valid)
          ELSE RowsLoop_nodedupe(remote, verify, rows, i + 1,
                                 [f1 EXCEPT !.analyze_items = Append(@, key)], TRUE)

RECURSIVE RowsLoop(_, _, _, _, _, _)
\* the loop over the rows selected for one relative path; returns [f, is_valid]
RowsLoop(remote, verify, rows, i, f, is_valid) ==
  IF i > Len(rows) \/ f.none THEN [f |-> f, is_valid |-> is_valid]
  ELSE LET key == rows[i].key
           item == remote[key]
           f1 == [f EXCEPT !.fetched = Append(@, key)]
       IN IF InSeq(key, f.analyze_items)
          THEN RowsLoop(remote, verify, rows, i + 1, f, TRUE)
          ELSE IF item = NoItem
          \* fetchItem raises NotFound
          THEN RowsLoop(remote, verify, rows, i + 1, [f1 EXCEPT !.none = verify], is_valid)
          ELSE IF verify /\ item.type = "artist"
          \* item.media raises AttributeError
          THEN RowsLoop(remote, verify, rows, i + 1, [f1 EXCEPT !.none = TRUE], is_valid)
          ELSE IF verify /\ ~is_plex_media_valid(item, rows[i].path)
          THEN RowsLoop(remote, verify, rows, i + 1, [f1 EXCEPT !.none = TRUE], is_valid)
          ELSE RowsLoop(remote, verify, rows, i + 1,
                        [f1 EXCEPT !.analyze_items = Append(@, key)], TRUE)

AddMissing(missing_items, lib_type, relative_path) ==
  [k \in DOMAIN missing_items \cup {lib_type} |->
     IF k = lib_type
     THEN (IF k \in DOMAIN missing_items THEN missing_items[k] ELSE <<>>) \o <<relative_path>>
     ELSE missing_items[k]]

RECURSIVE PathsLoop(_, _, _, _, _, _, _)
\* the loop over the changed paths of one library kind
PathsLoop(cache, remote, verify, lib_type, lib_changed_paths, i, f) ==
  IF i > Len(lib_changed_paths) \/ f.none THEN f
  ELSE LET relative_path == lib_changed_paths[i]
           r == RowsLoop(remote, verify, Select(cache, lib_type, relative_path), 1, f, FALSE)
           f2 == IF r.f.none \/ r.is_valid THEN r.f
                 ELSE IF verify THEN [r.f EXCEPT !.none = TRUE]
                 ELSE [r.f EXCEPT !.missing_items = AddMissing(@, lib_type, relative_path)]
       IN PathsLoop(cache, remote, verify, lib_type, lib_changed_paths, i + 1, f2)

RECURSIVE KindsLoop(_, _, _, _, _, _)
\* the loop over changed_paths.items(); changed_paths is a sequence of
\* [type, paths], one per library kind, in the order of the dict
KindsLoop(cache, remote, verify, changed_paths, i, f) ==
  IF i > Len(changed_paths) \/ f.none THEN f
  ELSE KindsLoop(cache, remote, verify, changed_paths, i + 1,
                 PathsLoop(cache, remote, verify, changed_paths[i].type,
                           changed_paths[i].paths, 1, f))

find_items(cache, remote, changed_paths, verify) ==
  KindsLoop(cache, remote, verify, changed_paths, 1, FindStart)

(***************************************************************************)
(* The remote actions.  The events of a run are recorded in order as       *)
(* [op, key]: the reads "sections" (library.sections()), "all"             *)
(* (section.all(), key the place of the section) and "fetchItem"; the      *)
(* mutations "analyze" (video.analyze()) and "update" (library.update());  *)
(* and the local steps "find_items_strict", "find_items_permissive",       *)
(* "VerificationFailed" (find_items returns None) and "refresh_cache".     *)
(***************************************************************************)
Ev(op, key) == [op |-> op, key |-> key]

RECURSIVE KeyEvents(_, _, _)
KeyEvents(op, keys, i) ==
  IF i > Len(keys) THEN <<>> ELSE <<Ev(op, keys[i])>> \o KeyEvents(op, keys, i + 1)

\* the events of one find_items that returned f
FindEvents(verify, f) ==
  <<Ev(IF verify THEN "find_items_strict" ELSE "find_items_permissive", 0)>>
  \o KeyEvents("fetchItem", f.fetched, 1)
  \o (IF f.none THEN <<Ev("VerificationFailed", 0)>> ELSE <<>>)

\* the events of one refresh_cache
RefreshEvents ==
  <<Ev("refresh_cache", 0), Ev("sections", 0)>>
  \o KeyEvents("all", SelectSeq([i \in DOMAIN SectionTypes |-> i],
                                LAMBDA i : SectionTypes[i] \in {"movie", "show"}), 1)

\* a faulty variant of refresh_libraries that forgets the dry-run test
refresh_libraries_nodry(cfg, events) ==
  IF cfg.skip_refresh THEN events
  ELSE Append(events, Ev("update", 0))

\* refresh_libraries: returns the events
refresh_libraries(cfg, events) ==
  IF cfg.skip_refresh THEN events
  ELSE IF ~cfg.dry_run THEN Append(events, Ev("update", 0))
  ELSE events

\* "for video in analyze_items.values()"
AnalyzeEvents(cfg, f) ==
  IF ~cfg.dry_run THEN KeyEvents("analyze", f.analyze_items, 1) ELSE <<>>

\* refresh_cache() raises while it lists the sections: the table has been
\* dropped and created again, nothing is inserted, and the run ends there
RebuildFailed(st, events) ==
  [st EXCEPT !.cache = open_db(@, TRUE), !.fresh = FALSE, !.aborted = TRUE,
             !.events = events \o <<Ev("refresh_cache", 0), Ev("sections", 0)>>]

\* a faulty variant of analyze_libraries that, when the cache is invalid, rebuilds it
\* and goes on with what the failed resolution had found
analyze_libraries_noretry(cfg, st, changed_paths) ==
  IF cfg.skip_analyze THEN st
  ELSE IF changed_paths = <<>> THEN st
  ELSE LET verify == ~cfg.refresh_cache
           items == find_items(st.cache, st.remote, changed_paths, verify)
           st1 == [st EXCEPT !.result = items,
                             !.query = [changed_paths |-> changed_paths, verify |-> verify]]
           ev1 == st.events \o FindEvents(verify, items)
       IN IF items.none
          THEN IF st.fails THEN RebuildFailed(st1, ev1)
               ELSE [st1 EXCEPT !.cache = open_db(@, TRUE) \o refresh_cache(st.remote, 1), !.fresh = TRUE,
                                !.events = ev1 \o RefreshEvents \o AnalyzeEvents(cfg, items)]
          ELSE [st1 EXCEPT !.events = ev1 \o AnalyzeEvents(cfg, items)]

\* a faulty variant of analyze_libraries that resolves in strict mode also when
\* config.refresh_cache is set
analyze_libraries_strict(cfg, st, changed_paths) ==
  IF cfg.skip_analyze THEN st
  ELSE IF changed_paths = <<>> THEN st
  ELSE LET verify == TRUE
           items == find_items(st.cache, st.remote, changed_paths, verify)
           st1 == [st EXCEPT !.result = items,
                             !.query = [changed_paths |-> changed_paths, verify |-> verify]]
           ev1 == st.events \o FindEvents(verify, items)
       IN IF items.none
          THEN IF st.fails THEN RebuildFailed(st1, ev1)
               ELSE LET rebuilt == open_db(st.cache, TRUE) \o refresh_cache(st.remote, 1)
                        again == find_items(rebuilt, st.remote, changed_paths, FALSE)
                    IN [st1 EXCEPT !.cache = rebuilt, !.fresh = TRUE, !.result = again,
                                   !.query = [changed_paths |-> changed_paths, verify |-> FALSE],
                                   !.events = ev1 \o RefreshEvents \o FindEvents(FALSE, again)
                                              \o AnalyzeEvents(cfg, again)]
          ELSE [st1 EXCEPT !.events = ev1 \o AnalyzeEvents(cfg, items)]

\* analyze_libraries; st = [cache, remote, fresh, query, result, events, fails,
\* aborted]: fails is whether a rebuild of the cache would fail, aborted
\* whether an exception has ended the run
analyze_libraries(cfg, st, changed_paths) ==
  IF cfg.skip_analyze THEN st
  ELSE IF changed_paths = <<>> THEN st
  ELSE LET verify == ~cfg.refresh_cache
           items == find_items(st.cache, st.remote, changed_paths, verify)
           st1 == [st EXCEPT !.result = items,
                             !.query = [changed_paths |-> changed_paths, verify |-> verify]]
           ev1 == st.events \o FindEvents(verify, items)
       IN IF items.none
          THEN IF st.fails THEN RebuildFailed(st1, ev1)
               ELSE LET rebuilt == open_db(st.cache, TRUE) \o refresh_cache(st.remote, 1)
                        again == find_items(rebuilt, st.remote, changed_paths, FALSE)
                    IN [st1 EXCEPT !.cache = rebuilt, !.fresh = TRUE, !.result = again,
                                   !.query = [changed_paths |-> changed_paths, verify |-> FALSE],
                                   !.events = ev1 \o RefreshEvents \o FindEvents(FALSE, again)
                                              \o AnalyzeEvents(cfg, again)]
          ELSE [st1 EXCEPT !.events = ev1 \o AnalyzeEvents(cfg, items)]

RECURSIVE KindOrder(_, _, _)
\* the keys of the metrics dict in insertion order: the kinds of the mappings
\* in the order they first appear
KindOrder(mappings, i, seen) ==
  IF i > Len(mappings) THEN seen
  ELSE KindOrder(mappings, i + 1,
                 IF InSeq(mappings[i].type, seen) THEN seen ELSE Append(seen, mappings[i].type))

\* {lib_type: lib_metrics.changed.files for lib_type, lib_metrics in metrics.items()}
ChangedPathsOf(ms, kinds) == [i \in DOMAIN kinds |-> [type |-> kinds[i], paths |-> ms[kinds[i]].changed.files]]

\* a faulty variant of update_server that refreshes for changed entries too
update_server_anychange(cfg, ms, kinds, st) ==
  IF DOMAIN ms = {} THEN st
  ELSE LET st1 == IF \E k \in DOMAIN ms : has_values(ms[k].changed)
                  THEN analyze_libraries(cfg, st, ChangedPathsOf(ms, kinds))
                  ELSE st
       IN IF st1.aborted THEN st1
          ELSE IF \E k \in DOMAIN ms : has_values(ms[k].added) \/ has_values(ms[k].removed) \/ has_values(ms[k].changed)
          THEN [st1 EXCEPT !.events = refresh_libraries(cfg, @)]
          ELSE st1

\* update_server(metrics)
update_server(cfg, ms, kinds, st) ==
  IF DOMAIN ms = {} THEN st
  ELSE LET st1 == IF \E k \in DOMAIN ms : has_values(ms[k].changed)
                  THEN analyze_libraries(cfg, st, ChangedPathsOf(ms, kinds))
                  ELSE st
       IN IF st1.aborted THEN st1
          ELSE IF \E k \in DOMAIN ms : has_values(ms[k].added) \/ has_values(ms[k].removed)
          THEN [st1 EXCEPT !.events = refresh_libraries(cfg, @)]
          ELSE st1

(***************************************************************************)
(* State.                                                                  *)
(***************************************************************************)
VARIABLES
  libs,      \* config.plex_libs: a sequence of [type, src, dest], src and dest the trees under the two roots
  order,     \* the scandir order of this run
  deny,      \* the filesystem calls the system refuses
  config,    \* the flags: [dry_run, skip_refresh, skip_analyze, refresh_cache]
  metrics,   \* what the last sync() returned, or its local dict when it raised
  log,       \* the log of the last sync()
  before,    \* libs as they were when the last sync() started
  runs,      \* how many times sync() has run
  pc,        \* where the run is
  remote,    \* the items of the remote service
  cache,     \* the rows of the table media of cache.db
  changes,   \* how many times the remote library has changed
  fresh,     \* the last refresh_cache completed and the remote has not changed since
  query,     \* the arguments of the last find_items: [changed_paths, verify]
  result,    \* what the last find_items returned
  calls      \* the events of the run, in order: the calls to the remote service and the local steps

fsvars == <<libs, order, deny, metrics, log, before, runs>>
dbvars == <<remote, cache, changes, fresh, query, result>>
vars == <<libs, order, deny, config, metrics, log, before, runs, pc,
          remote, cache, changes, fresh, query, result, calls>>

NoQuery == [changed_paths |-> <<>>, verify |-> FALSE]

Flags(dry) == [dry_run |-> dry, skip_refresh |-> FALSE, skip_analyze |-> FALSE,
               refresh_cache |-> FALSE]

(***************************************************************************)
(* The reconciler on its own: sync() run MaxRuns times in a row with       *)
(* nothing else touching the trees, on one mapping with any pair of trees  *)
(* or on two mappings with small trees.                                    *)
(***************************************************************************)
\* the trees that hold the directory a and perhaps its file
SmallTrees ==
  {t \in Trees : /\ t[<<NameA>>] = DIR
                 /\ \A p \in Paths \ {<<NameA>>, <<NameA, NameF>>} : t[p] = 0
                 /\ t[<<NameA, NameF>>] <= 2}

SyncLibsInit ==
  {<<[type |-> "movie", src |-> s, dest |-> d]>> : s \in Trees, d \in Trees}
  \cup
  {<<[type |-> "movie", src |-> s1, dest |-> d1], [type |-> k, src |-> s2, dest |-> d2]>> :
     k \in Kinds, s1 \in SmallTrees, d1 \in SmallTrees, s2 \in SmallTrees, d2 \in SmallTrees}

InitSync ==
  /\ libs \in SyncLibsInit
  /\ order \in Orders
  /\ deny = {}
  /\ \E dry \in BOOLEAN : config = Flags(dry)
  /\ metrics = NoMetrics
  /\ log = <<>>
  /\ before = libs
  /\ runs = 0
  /\ pc = "sync"
  /\ remote = [k \in Keys |-> NoItem]
  /\ cache = <<>>
  /\ changes = 0
  /\ fresh = FALSE
  /\ query = NoQuery
  /\ result = FindStart
  /\ calls = <<>>

Sync ==
  /\ pc = "sync"
  /\ runs < MaxRuns
  /\ LET r == sync(libs, config.dry_run, order, deny)
     IN /\ libs' = r.libs
        /\ metrics' = r.metrics
        /\ log' = r.log
        /\ pc' = IF r.err THEN "failed" ELSE pc
  /\ before' = libs
  /\ runs' = runs + 1
  /\ UNCHANGED <<order, deny, config, calls>>
  /\ UNCHANGED dbvars

NextSync == Sync

SpecSync == InitSync /\ [][NextSync]_vars

(***************************************************************************)
(* The reconciler when the system refuses some filesystem calls: sync()    *)
(* without dry_run on one mapping.                                         *)
(***************************************************************************)
\* the trees whose files have the inodes 1 and 2
FailTrees == {t \in Trees : \A p \in FilePaths : t[p] <= 2}

InitFail ==
  /\ \E s \in FailTrees, d \in FailTrees : libs = <<[type |-> "movie", src |-> s, dest |-> d]>>
  /\ order \in Orders
  /\ deny \in {S \in SUBSET Denials : Cardinality(S) <= MaxDenied}
  /\ config = Flags(FALSE)
  /\ metrics = NoMetrics
  /\ log = <<>>
  /\ before = libs
  /\ runs = 0
  /\ pc = "sync"
  /\ remote = [k \in Keys |-> NoItem]
  /\ cache = <<>>
  /\ changes = 0
  /\ fresh = FALSE
  /\ query = NoQuery
  /\ result = FindStart
  /\ calls = <<>>

NextFail == Sync

SpecFail == InitFail /\ [][NextFail]_vars

(***************************************************************************)
(* The resolution cache on its own: any remote library, an empty table,    *)
(* then cache rebuilds and changes of the remote library in any order, and *)
(* one find_items.                                                         *)
(***************************************************************************)
\* the non-empty lists of at most MaxChanged paths
ChangedLists == UNION {[1..n -> FilePaths] : n \in 1..MaxChanged}

\* the changed_paths dicts find_items is called with here: one library kind
\* with a list of paths, or both kinds with at most one path each
ChangedPaths ==
  {<<[type |-> k, paths |-> ps]>> : k \in Kinds, ps \in ChangedLists}
  \cup
  {<<[type |-> ks[1], paths |-> ps1], [type |-> ks[2], paths |-> ps2]>> :
     ks \in {<<"movie", "show">>, <<"show", "movie">>},
     ps1 \in {<<>>} \cup {<<p>> : p \in FilePaths},
     ps2 \in {<<p>> : p \in FilePaths}}

InitResolve ==
  /\ libs = <<>>
  /\ order = CHOOSE o \in Orders : TRUE
  /\ deny = {}
  /\ config = Flags(FALSE)
  /\ metrics = NoMetrics
  /\ log = <<>>
  /\ before = <<>>
  /\ runs = 0
  /\ pc = "resolve"
  /\ remote \in Remotes
  /\ cache = <<>>
  /\ changes = 0
  /\ fresh = FALSE
  /\ query = NoQuery
  /\ result = FindStart
  /\ calls = <<>>

\* refresh_cache() completes
RefreshCache ==
  /\ pc = "resolve"
  /\ cache' = open_db(cache, TRUE) \o refresh_cache(remote, 1)
  /\ fresh' = TRUE
  /\ UNCHANGED <<remote, changes, query, result, config, pc, calls>>
  /\ UNCHANGED fsvars

\* refresh_cache() fails while it lists the sections and items: the table has
\* been dropped and created again, and nothing is inserted
RefreshCacheFails ==
  /\ pc = "resolve"
  /\ cache' = open_db(cache, TRUE)
  /\ fresh' = FALSE
  /\ UNCHANGED <<remote, changes, query, result, config, pc, calls>>
  /\ UNCHANGED fsvars

\* the remote library changes: an item appears or goes, or an item gets or
\* loses one file part
RemoteChange ==
  /\ pc = "resolve"
  /\ changes < MaxRemoteChanges
  /\ \E k \in Keys, it \in Items :
       /\ it # remote[k]
       /\ \/ remote[k] = NoItem
          \/ it = NoItem
          \/ /\ it.type = remote[k].type
             /\ \E f \in FileSet : it.files \cup {f} = remote[k].files \cup {f}
       /\ remote' = [remote EXCEPT ![k] = it]
  /\ changes' = changes + 1
  /\ fresh' = FALSE
  /\ UNCHANGED <<cache, query, result, config, pc, calls>>
  /\ UNCHANGED fsvars

\* find_items(changed_paths, verify)
FindItems ==
  /\ pc = "resolve"
  /\ \E cp \in ChangedPaths, verify \in BOOLEAN :
       /\ query' = [changed_paths |-> cp, verify |-> verify]
       /\ result' = find_items(cache, remote, cp, verify)
  /\ pc' = "found"
  /\ UNCHANGED <<remote, cache, changes, fresh, config, calls>>
  /\ UNCHANGED fsvars

NextResolve == RefreshCache \/ RefreshCacheFails \/ RemoteChange \/ FindItems

SpecResolve == InitResolve /\ [][NextResolve]_vars

(***************************************************************************)
(* A whole run (run): Plex.__init__, sync, refresh_cache when the flag     *)
(* asks for it, update_server.  The cache is empty or was built from an    *)
(* earlier state of the remote library.                                    *)
(***************************************************************************)
\* the trees of a run: the directory a, perhaps b, and their files
RunTrees ==
  {t \in Trees : /\ t[<<NameA>>] = DIR
                 /\ t[<<NameA, NameA>>] = 0
                 /\ \A p \in FilePaths : t[p] <= 2}

\* the remote libraries of a run: no item, one movie with the first two files,
\* or two movies with one of them each
RunRemotes ==
  {r \in Remotes :
     /\ \A k \in Keys : k > 2 => r[k] = NoItem
     /\ \A k \in Keys : r[k].type \in {"none", "movie"}
     /\ \/ \A k \in Keys : r[k] = NoItem
        \/ r[1].files = {RemoteFiles[1], RemoteFiles[2]} /\ r[2] = NoItem
        \/ r[1].files = {RemoteFiles[1]} /\ r[2].files = {RemoteFiles[2]}}

\* the trees with the directory a alone
PairTrees == SmallTrees

\* the mappings of a run: none; one movie mapping; one small show mapping; or
\* two small mappings, the first a movie mapping whose file has changed or is new
RunLibs ==
  {<<>>}
  \cup
  {<<[type |-> "movie", src |-> s, dest |-> d]>> : s \in RunTrees, d \in RunTrees}
  \cup
  {<<[type |-> "show", src |-> s, dest |-> d]>> : s \in PairTrees, d \in PairTrees}
  \cup
  {<<[type |-> "movie", src |-> s1, dest |-> d1], [type |-> k, src |-> s2, dest |-> d2]>> :
     k \in Kinds,
     s1 \in {t \in PairTrees : t[<<NameA, NameF>>] = 2},
     d1 \in {t \in PairTrees : t[<<NameA, NameF>>] < 2},
     s2 \in PairTrees, d2 \in PairTrees}

InitRun ==
  /\ libs \in RunLibs
  /\ order = CHOOSE o \in Orders : TRUE
  /\ deny = {}
  /\ config \in [dry_run : BOOLEAN, skip_refresh : BOOLEAN, skip_analyze : BOOLEAN,
                 refresh_cache : BOOLEAN]
  /\ metrics = NoMetrics
  /\ log = <<>>
  /\ before = libs
  /\ runs = 0
  /\ pc = "init"
  /\ remote \in RunRemotes
  /\ \E old \in RunRemotes : cache = refresh_cache(old, 1)
  /\ changes = 0
  /\ fresh = FALSE
  /\ query = NoQuery
  /\ result = FindStart
  /\ calls = <<>>

\* Plex(config): the server object is made and its sections are listed
PlexInit ==
  /\ pc = "init"
  /\ calls' = Append(calls, Ev("sections", 0))
  /\ pc' = "sync"
  /\ UNCHANGED config
  /\ UNCHANGED fsvars
  /\ UNCHANGED dbvars

\* metrics = plex.sync()
RunSync ==
  /\ pc = "sync"
  /\ LET r == sync(libs, config.dry_run, order, deny)
     IN /\ libs' = r.libs
        /\ metrics' = r.metrics
        /\ log' = r.log
        /\ pc' = IF r.err THEN "failed" ELSE "refresh_cache"
  /\ before' = libs
  /\ runs' = runs + 1
  /\ UNCHANGED <<order, deny, config, calls>>
  /\ UNCHANGED dbvars

\* if config.refresh_cache: plex.refresh_cache()
RunRefreshCache ==
  /\ pc = "refresh_cache"
  /\ IF config.refresh_cache
     THEN /\ cache' = open_db(cache, TRUE) \o refresh_cache(remote, 1)
          /\ fresh' = TRUE
          /\ calls' = calls \o RefreshEvents
     ELSE UNCHANGED <<cache, fresh, calls>>
  /\ pc' = "update_server"
  /\ UNCHANGED <<remote, changes, query, result, config>>
  /\ UNCHANGED fsvars

\* the same, refresh_cache() raising while it lists the sections
RunRefreshCacheFails ==
  /\ pc = "refresh_cache"
  /\ config.refresh_cache
  /\ cache' = open_db(cache, TRUE)
  /\ fresh' = FALSE
  /\ calls' = calls \o <<Ev("refresh_cache", 0), Ev("sections", 0)>>
  /\ pc' = "failed"
  /\ UNCHANGED <<remote, changes, query, result, config>>
  /\ UNCHANGED fsvars

\* plex.update_server(metrics); fails is whether a rebuild of the cache in it
\* would raise
UpdateServer ==
  /\ pc = "update_server"
  /\ \E fails \in BOOLEAN :
       LET st == update_server(config, metrics, KindOrder(libs, 1, <<>>),
                               [cache |-> cache, remote |-> remote, fresh |-> fresh,
                                query |-> query, result |-> result, events |-> calls,
                                fails |-> fails, aborted |-> FALSE])
       IN /\ cache' = st.cache
          /\ fresh' = st.fresh
          /\ query' = st.query
          /\ result' = st.result
          /\ calls' = st.events
          /\ pc' = IF st.aborted THEN "failed" ELSE "done"
  /\ UNCHANGED <<remote, changes, config>>
  /\ UNCHANGED fsvars

NextRun == PlexInit \/ RunSync \/ RunRefreshCache \/ RunRefreshCacheFails \/ UpdateServer

SpecRun == InitRun /\ [][NextRun]_vars

(***************************************************************************)
(* Claims about the reconciler (SpecSync).                                 *)
(***************************************************************************)
Count(s, x) == Cardinality({i \in DOMAIN s : s[i] = x})

LogCount(op, i, path) == Count(log, [op |-> op, lib |-> i, path |-> path])

\* the relative paths under a root
PathSet(tree) == {p \in Paths : tree[p] # 0}

\* the metrics of the kind of the i-th mapping
LibM(i) == metrics[libs[i].type]

AllEmpty(m) ==
  /\ m.added = SyncMetric
  /\ m.removed = SyncMetric
  /\ m.changed = SyncMetric

\* C1 (completeness): after a non-dry-run sync() of a mapping, the relative
\* paths under the destination root are exactly those under the source root,
\* and every destination file has the inode of its source counterpart.
C1_Completeness ==
  (runs >= 1 /\ ~config.dry_run) =>
     \A i \in DOMAIN libs :
        /\ PathSet(libs[i].dest) = PathSet(libs[i].src)
        /\ \A p \in FilePaths : libs[i].dest[p] > 0 => libs[i].dest[p] = libs[i].src[p]

\* C2 (idempotence): the second of two non-dry-run sync() in a row, the source
\* unchanged in between, returns metrics whose six lists are all empty.
C2_Idempotence ==
  (runs = 2 /\ ~config.dry_run) => \A k \in DOMAIN metrics : AllEmpty(metrics[k])

\* the destination directories of the i-th mapping that pass 1 lists and whose
\* source counterpart does not exist: the parent exists in both trees, so
\* pass 1 reaches the parent
MissingDirs(i) ==
  {p \in DirPaths : /\ before[i].dest[p] = DIR
                    /\ ~Exists(before[i].src, p)
                    /\ Exists(before[i].src, Parent(p))}

Below(p) == {q \in Paths : IsPrefix(p, q) /\ q # p}

\* C3 (removal cascade), for a run of one mapping: every destination directory
\* whose source counterpart does not exist is removed with its whole subtree in
\* pass 1 and recorded once
\* in removed.dirs; the walk does not descend into it, and none of its
\* descendants is checked, removed or recorded on its own.
C3_RemovalCascade ==
  (runs >= 1 /\ Len(libs) = 1) =>
    \A p \in MissingDirs(1) :
       /\ Count(LibM(1).removed.dirs, p) = 1
       /\ ~config.dry_run =>
            /\ LogCount("rmtree", 1, p) = 1
            /\ \A q \in Paths : IsPrefix(p, q) => libs[1].dest[q] = 0
       /\ LogCount("walk_dest", 1, p) = 0
       /\ \A q \in Below(p) :
            /\ \A n \in DOMAIN log : log[n].path # q
            /\ Count(LibM(1).removed.dirs, q) = 0
            /\ Count(LibM(1).removed.files, q) = 0

\* the files of both trees of the i-th mapping whose sizes differ when sync()
\* starts
Drifted(i) ==
  {p \in FilePaths : /\ before[i].src[p] > 0
                     /\ before[i].dest[p] > 0
                     /\ InodeSize(before[i].src[p]) # InodeSize(before[i].dest[p])}

\* what C4 says of the file p of the i-th mapping
SizeDriftHandled(i, p) ==
  /\ Count(LibM(i).changed.files, p) = 1
  /\ Count(LibM(i).removed.files, p) = 0
  /\ Count(LibM(i).added.files, p) = 0
  /\ ~config.dry_run =>
       /\ LogCount("remove", i, p) = 1
       /\ LogCount("link", i, p) = 1
       /\ libs[i].dest[p] = libs[i].src[p]
       /\ InodeSize(libs[i].dest[p]) = InodeSize(libs[i].src[p])

\* C4 as stated (size drift): a file of both trees whose sizes differ is
\* recorded once in changed.files and in neither removed.files nor
\* added.files, and unless dry_run it is removed once and linked once, after
\* which it has the inode, hence the size, of the source file.
C4_SizeDrift ==
  runs >= 1 => \A i \in DOMAIN libs : \A p \in Drifted(i) : SizeDriftHandled(i, p)

\* no other mapping of the kind of the i-th holds the relative path p
OnlyMapping(i, p) ==
  \A j \in DOMAIN libs :
     (j # i /\ libs[j].type = libs[i].type) => (before[j].src[p] = 0 /\ before[j].dest[p] = 0)

\* C4 as amended: the same, for a file whose relative path no other mapping of
\* the same library kind holds (the mappings of one kind share their lists).
C4_SizeDriftOneMapping ==
  runs >= 1 =>
    \A i \in DOMAIN libs : \A p \in Drifted(i) : OnlyMapping(i, p) => SizeDriftHandled(i, p)

\* a drifted file has been linked again, in a run of two mappings
C4_Witness ==
  /\ runs >= 1
  /\ ~config.dry_run
  /\ Len(libs) = 2
  /\ \E i \in DOMAIN libs : \E p \in Drifted(i) :
        /\ OnlyMapping(i, p)
        /\ libs[i].dest[p] = libs[i].src[p]
        /\ LogCount("link", i, p) = 1

\* C11 (dry-run leaves the filesystem unchanged): after a sync() with dry_run
\* set both trees of every mapping are what they were, and no rmtree, remove,
\* mkdir or link call has been made.
C11_DryRunLeavesTrees ==
  (config.dry_run /\ runs >= 1) =>
     /\ libs = before
     /\ \A n \in DOMAIN log : log[n].op \notin {"rmtree", "remove", "mkdir", "link"}

\* a dry run that found a directory to remove, a file to link and a file to
\* link again
C11_Witness ==
  /\ config.dry_run /\ runs >= 1
  /\ \E k \in DOMAIN metrics :
        /\ metrics[k].removed.dirs # <<>>
        /\ metrics[k].added.files # <<>>
        /\ metrics[k].changed.files # <<>>

\* C12 (dry-run is a faithful preview): the metrics a sync() returns are the
\* metrics the sync() with the other value of dry_run returns from the same
\* trees.
C12_FaithfulPreview ==
  runs >= 1 => metrics = sync(before, ~config.dry_run, order, deny).metrics

\* a run without dry_run that made a directory and linked a file in it, removed
\* a directory and linked a drifted file again
C12_Witness ==
  /\ ~config.dry_run /\ runs >= 1
  /\ \E k \in DOMAIN metrics :
        /\ \E i \in DOMAIN metrics[k].added.dirs :
              InSeq(metrics[k].added.dirs[i] \o <<NameF>>, metrics[k].added.files)
        /\ metrics[k].removed.dirs # <<>>
        /\ metrics[k].changed.files # <<>>

(***************************************************************************)
(* Claims about the reconciler when filesystem calls fail (SpecFail).      *)
(***************************************************************************)
\* the path is in one of the six lists of the metrics
Recorded(m, p) ==
  \E a \in {"added", "removed", "changed"} : InSeq(p, m[a].dirs) \/ InSeq(p, m[a].files)

\* C16 (filesystem mutation failures are fatal): when a mutating filesystem
\* call of sync() fails, the run is aborted and the entry is in none of the
\* lists of the metrics.
C16_FatalFailures ==
  \A n \in DOMAIN log :
     log[n].op = "fails" =>
        /\ pc = "failed"
        /\ \A k \in DOMAIN metrics : ~Recorded(metrics[k], log[n].path)

\* C20 (no orphan or drifted destination file survives a pass): after a sync()
\* without dry_run that has not raised, every file under the destination root
\* has a source counterpart, of the same size.
C20_NoOrphan ==
  (runs >= 1 /\ ~config.dry_run /\ pc # "failed") =>
     \A i \in DOMAIN libs : \A p \in FilePaths :
        libs[i].dest[p] > 0 =>
           /\ libs[i].src[p] > 0
           /\ InodeSize(libs[i].src[p]) = InodeSize(libs[i].dest[p])

(***************************************************************************)
(* Claims about the resolution cache (SpecResolve).                        *)
(***************************************************************************)
\* the changed paths of the last find_items, as [type, path]
Changed ==
  UNION {{[type |-> query.changed_paths[i].type, path |-> query.changed_paths[i].paths[j]] :
            j \in DOMAIN query.changed_paths[i].paths} : i \in DOMAIN query.changed_paths}

\* the candidate records the lookup of a changed path returns
Candidates(c) ==
  LET rows == Select(cache, c.type, c.path) IN {rows[i] : i \in DOMAIN rows}

\* a record fails live verification: fetchItem raises NotFound, the item has
\* no media, or no file part of the live item is the record's path
FailsLive(r) ==
  \/ remote[r.key] = NoItem
  \/ remote[r.key].type = "artist"
  \/ ~is_plex_media_valid(remote[r.key], r.path)

\* C5 (strict-cache correctness): find_items(verify=True) returns None when
\* some changed path has no candidate record or only candidate records that
\* fail live verification, and what it returns otherwise has no unresolved path.
C5_StrictCorrect ==
  (pc = "found" /\ query.verify) =>
     /\ (\E c \in Changed : \A r \in Candidates(c) : FailsLive(r)) => result.none
     /\ ~result.none => DOMAIN result.missing_items = {}

\* C6 (every candidate is verified): find_items(verify=True) returns None when
\* the path of any candidate record of any changed path is not among the file
\* parts of the live item with the record's key, also when that key was
\* resolved before.
C6_EveryCandidateVerified ==
  (pc = "found" /\ query.verify) =>
     ((\E c \in Changed : \E r \in Candidates(c) :
          remote[r.key] # NoItem /\ ~is_plex_media_valid(remote[r.key], r.path))
      => result.none)

RECURSIVE SplitPath(_, _)
\* the parts of a path string: its runs of characters between separators, cur
\* being the part read so far
SplitPath(s, cur) ==
  IF s = <<>> THEN (IF cur = <<>> THEN <<>> ELSE <<cur>>)
  ELSE IF s[1] = "/" THEN (IF cur = <<>> THEN <<>> ELSE <<cur>>) \o SplitPath(Tail(s), <<>>)
  ELSE SplitPath(Tail(s), Append(cur, s[1]))

\* the path string ends with the relative path as a sequence of whole parts
EndsWithParts(str, rel) ==
  LET parts == SplitPath(str, <<>>)
  IN Len(rel) <= Len(parts) /\ SubSeq(parts, Len(parts) - Len(rel) + 1, Len(parts)) = rel

\* C8 (rebuild determinism): when the remote library has not changed since the
\* last refresh_cache, find_items(verify=False) for a changed path that is a
\* suffix, in whole parts, of a file of an item of that kind has the key of
\* the item among the resolved items and the path not among the unresolved.
C8_RebuildDeterminism ==
  (pc = "found" /\ ~query.verify /\ fresh) =>
     \A c \in Changed : \A k \in Keys :
        (/\ remote[k].type = c.type
         /\ c.type \in Kinds
         /\ \E f \in remote[k].files : EndsWithParts(PurePathStr(f), c.path))
        => /\ ~result.none
           /\ InSeq(k, result.analyze_items)
           /\ c.type \in DOMAIN result.missing_items
                => ~InSeq(c.path, result.missing_items[c.type])

C8_Witness ==
  /\ pc = "found" /\ ~query.verify /\ fresh
  /\ \E c \in Changed : \E k \in Keys :
        /\ remote[k].type = c.type
        /\ c.type = "show"
        /\ \E f \in remote[k].files : EndsWithParts(PurePathStr(f), c.path) /\ f # PurePathStr(f)
        /\ InSeq(k, result.analyze_items)

\* C9 (lookup on separator boundaries): the candidate records of a changed path
\* are exactly the records of its library kind whose path ends with the
\* relative path as a sequence of whole parts.
C9_SeparatorBoundaries ==
  pc = "found" =>
     \A c \in Changed :
        Candidates(c) = {cache[i] : i \in {j \in DOMAIN cache :
                            cache[j].lib = c.type /\ EndsWithParts(cache[j].path, c.path)}}

\* C17 (permissive resolution): find_items(verify=False) does not return None,
\* and every changed path none of whose candidate records is confirmed by the
\* live item (no candidate, fetchItem raising NotFound, or the record's path
\* not among the item's parts) is among the unresolved paths of its kind.
C17_Permissive ==
  (pc = "found" /\ ~query.verify) =>
     /\ ~result.none
     /\ \A c \in Changed :
           (\A r \in Candidates(c) : FailsLive(r)) =>
              /\ c.type \in DOMAIN result.missing_items
              /\ InSeq(c.path, result.missing_items[c.type])

\* the records refresh_cache is to insert: one per file part of every item of
\* a movie or show section
PartRows(r) ==
  {[lib |-> r[k].type, key |-> k, path |-> PurePathStr(f)] :
     <<k, f>> \in {x \in Keys \X FileSet : r[x[1]].type \in Kinds /\ x[2] \in r[x[1]].files}}

\* C19 (wholesale cache replacement): after a refresh_cache() that completes
\* the table holds exactly one record per file part of every item of the movie
\* and show sections and nothing else; a refresh_cache() that fails while it
\* lists the remote library leaves the table empty.
C19_WholesaleReplacement ==
  /\ [](fresh => /\ {cache[i] : i \in DOMAIN cache} = PartRows(remote)
                 /\ Len(cache) = Cardinality(PartRows(remote)))
  /\ [][RefreshCacheFails => cache' = <<>>]_vars

\* a rebuild after the remote library has changed, with a photo item and an
\* item of two parts
C19_Witness ==
  /\ fresh /\ changes >= 1
  /\ \E k \in Keys : remote[k].type = "photo"
  /\ \E k \in Keys : remote[k].type \in Kinds /\ Cardinality(remote[k].files) = 2

(***************************************************************************)
(* Claims about a whole run (SpecRun).                                     *)
(***************************************************************************)
Ops(op) == {i \in DOMAIN calls : calls[i].op = op}

\* C7 (verify-or-rebuild ordering): when a resolution returns
\* VerificationFailed, then in a run that completes or issues an analyze call
\* the cache is rebuilt and then the paths are resolved again in permissive
\* mode, both before any analyze call, and every item analyzed is an item of
\* that later resolution.
C7_VerifyOrRebuild ==
  \A i \in Ops("VerificationFailed") :
     (pc = "done" \/ Ops("analyze") # {}) =>
        /\ \E r \in Ops("refresh_cache"), p \in Ops("find_items_permissive") :
              /\ i < r /\ r < p
              /\ \A j \in Ops("analyze") : p < j
        /\ ~query.verify
        /\ ~result.none
        /\ \A j \in Ops("analyze") : InSeq(calls[j].key, result.analyze_items)

C7_Witness ==
  /\ pc = "done"
  /\ Ops("VerificationFailed") # {}
  /\ Ops("analyze") # {}

\* C10 (dry-run issues no remote mutation): in a run with dry_run set no
\* analyze and no library update is issued, whatever the metrics and the
\* other flags; the remote service is only read.
C10_DryRunNoMutation ==
  config.dry_run =>
     \A i \in DOMAIN calls :
        calls[i].op \in {"sections", "all", "fetchItem", "find_items_strict",
                         "find_items_permissive", "VerificationFailed", "refresh_cache"}

\* a dry run that had items to analyze and added or removed entries to report
C10_Witness ==
  /\ pc = "done"
  /\ config.dry_run /\ ~config.skip_refresh /\ ~config.skip_analyze
  /\ result.analyze_items # <<>>
  /\ \E k \in DOMAIN metrics : has_values(metrics[k].added) \/ has_values(metrics[k].removed)

\* some kind has an added or a removed entry, and neither skip_refresh nor
\* dry_run is set
RefreshWanted ==
  /\ \E k \in DOMAIN metrics : has_values(metrics[k].added) \/ has_values(metrics[k].removed)
  /\ ~config.skip_refresh
  /\ ~config.dry_run

\* C13 (refresh decision): library.update() is called at most once in a run,
\* only if some kind has an added or removed entry and neither skip_refresh
\* nor dry_run is set, and a run that completes has called it exactly once
\* in that case.
C13_RefreshDecision ==
  /\ Cardinality(Ops("update")) <= 1
  /\ Ops("update") # {} => RefreshWanted
  /\ (pc = "done" /\ RefreshWanted) => Cardinality(Ops("update")) = 1

\* a run that analyzed an item and then refreshed the libraries
C13_Witness ==
  /\ pc = "done"
  /\ \E i \in Ops("analyze"), j \in Ops("update") : i < j

AnalyzeCount(k) == Cardinality({j \in Ops("analyze") : calls[j].key = k})

\* C14 (analyze once per resolved key): no item is analyzed twice, with
\* skip_analyze no item is analyzed, and a run without dry_run and
\* skip_analyze that completes has analyzed exactly the items of the final
\* resolution.
C14_AnalyzeOncePerKey ==
  /\ \A k \in Keys : AnalyzeCount(k) <= 1
  /\ config.skip_analyze => Ops("analyze") = {}
  /\ (pc = "done" /\ ~config.dry_run /\ ~config.skip_analyze) =>
        \A k \in Keys : AnalyzeCount(k) = IF InSeq(k, result.analyze_items) THEN 1 ELSE 0

\* two changed paths resolved to one item, which was analyzed once
C14_Witness ==
  /\ pc = "done"
  /\ \E i \in DOMAIN query.changed_paths : Len(query.changed_paths[i].paths) = 2
  /\ DOMAIN result.missing_items = {}
  /\ Cardinality(Ops("analyze")) = 1

\* C15 (no active mappings means no remote contact): with no mapping the run
\* makes no call to the remote service.
C15_NoMappingsNoContact ==
  Len(libs) = 0 => calls = <<>>

\* C18 (rebuild only when necessary): refresh_cache() is called at most once in
\* a run, and only if config.refresh_cache is set or a strict find_items of the
\* run has returned None before; it is not called when refresh_cache is not set
\* and no file has changed.
C18_RebuildOnlyWhenNecessary ==
  /\ Cardinality(Ops("refresh_cache")) <= 1
  /\ \A r \in Ops("refresh_cache") :
        \/ config.refresh_cache
        \/ \E s \in Ops("find_items_strict"), v \in Ops("VerificationFailed") : s < v /\ v < r
  /\ (~config.refresh_cache /\ \A k \in DOMAIN metrics : ~has_values(metrics[k].changed))
        => Ops("refresh_cache") = {}

\* a run whose strict resolution failed and that rebuilt the cache once, and a
\* dry run at that
C18_Witness ==
  /\ pc = "done"
  /\ config.dry_run /\ ~config.refresh_cache
  /\ Ops("VerificationFailed") # {}
  /\ Cardinality(Ops("refresh_cache")) = 1

====
